---- MODULE Spec2Model ----
(***************************************************************************)
(* A model of the three variants of the CRUD service:                      *)
(*   - the in-memory hubs server (src/unnamed/part_001), whose collection  *)
(*     is the process-wide array `hubs`;                                   *)
(*   - the dogs server (src/unnamed/part_000), whose handlers await a      *)
(*     model module Dog that is not part of the sources;                   *)
(*   - the database hubs server (src/index.js), whose handlers chain       *)
(*     promises of a model module db that is not part of the sources.      *)
(* Every handler is one step, except under SpecLoop, which follows the     *)
(* in-memory server at the grain of the event loop: requests wait in       *)
(* `inflight`, and `running` is the request whose handler holds the        *)
(* thread.                                                                 *)
(* A record is a function from a subset of Fields to values.  Values are   *)
(* integers: 0 stands for a falsy value ("" or 0), positive numbers for    *)
(* values a client sends, negative numbers for the tokens the id generator *)
(* hands out (a namespace of its own: shortid's id space is taken to be    *)
(* large enough that no client invents a token before it is generated).    *)
(***************************************************************************)
EXTENDS Integers, Sequences, FiniteSets, TLC

VARIABLES variant, hubs, store, nextId, res, inflight, running

vars == <<variant, hubs, store, nextId, res, inflight, running>>

\* The three servers of the repository; one of them runs.
Variants == {"memory", "dogs", "db"}

\* The most tokens the generator hands out in one behaviour, hence the most
\* records a collection ever holds.
MaxGen == 2

Fields == {"id", "name", "weight"}

\* Values a client of the in-memory server puts in a name or weight field.
ClientVals == {1}

\* Values a client of the dogs or database server puts in a name or weight
\* field; 0 is the falsy one ("" or 0).
StoreVals == {0, 1}

\* The tokens generated so far.
Generated == {-k : k \in 1..(nextId - 1)}

\* A path id no record ever carries.
NoSuchId == 0

\* The ids a client may put in a request path.
PathIds == Generated \cup {NoSuchId}

FieldVals(f) == IF f = "id" THEN Generated ELSE ClientVals

\* The JSON objects a client of the in-memory server may send as a body.
Bodies == UNION {{b \in [D -> Generated \cup ClientVals] :
                     \A f \in D : b[f] \in FieldVals(f)} : D \in SUBSET Fields}

\* The bodies a client of the in-memory server sends with a PATCH: at most
\* one property.  Object.assign copies property by property, so a patch of
\* several properties acts as the patches of each one in turn.
PatchBodies == {b \in Bodies : Cardinality(DOMAIN b) <= 1}

\* The JSON objects a client of the dogs or database server may send as a
\* body: records without id.
StoreBodies == UNION {[D -> StoreVals] : D \in SUBSET (Fields \ {"id"})}

Has(r, f) == f \in DOMAIN r

NoRecord == <<>>

\* hub => hub.id === id
IdMatches(hub, id) == Has(hub, "id") /\ hub["id"] = id

\* Array.prototype.findIndex: the first index whose element matches, else -1
\* (0 here: sequences are 1-based).  Array.prototype.find returns the element
\* at that index.
FindIndex(arr, id) ==
    IF \E i \in 1..Len(arr) : IdMatches(arr[i], id)
    THEN CHOOSE i \in 1..Len(arr) :
             /\ IdMatches(arr[i], id)
             /\ \A j \in 1..(i - 1) : ~IdMatches(arr[j], id)
    ELSE 0

\* A removal that moves the last element into the place of the first match.
SwapRemove(arr, id) ==
    LET i == FindIndex(arr, id)
        n == Len(arr)
    IN IF i = 0 THEN arr
       ELSE IF i = n THEN SubSeq(arr, 1, n - 1)
       ELSE [SubSeq(arr, 1, n - 1) EXCEPT ![i] = arr[n]]

\* Array.prototype.filter(hub => hub.id !== id)
RECURSIVE FilterOut(_, _)
FilterOut(arr, id) ==
    IF arr = <<>> THEN <<>>
    ELSE IF IdMatches(Head(arr), id) THEN FilterOut(Tail(arr), id)
    ELSE <<Head(arr)>> \o FilterOut(Tail(arr), id)

\* obj[key] = value
SetProperty(obj, key, value) ==
    [f \in DOMAIN obj \cup {key} |-> IF f = key THEN value ELSE obj[f]]

\* A merge that only updates the properties the target already has.
AssignExistingKeys(target, source) ==
    [f \in DOMAIN target |->
        IF f \in DOMAIN source THEN source[f] ELSE target[f]]

\* Object.assign(target, source)
ObjectAssign(target, source) ==
    [f \in DOMAIN target \cup DOMAIN source |->
        IF f \in DOMAIN source THEN source[f] ELSE target[f]]

\* shortid.generate()
ShortidGenerate == -nextId

\* A response sent by the handler itself.
Response(method, id, status, kind, body) ==
    [method |-> method, id |-> id, status |-> status, kind |-> kind,
     body |-> body, message |-> "", sent |-> TRUE, escaped |-> "none"]

\* An error response sent by the handler itself, with its message.
ErrorResponse(method, id, status, message) ==
    [method |-> method, id |-> id, status |-> status, kind |-> "error",
     body |-> NoRecord, message |-> message, sent |-> TRUE, escaped |-> "none"]

\* A handler that returns without sending anything: the request stays open.
NoResponse(method, id, status) ==
    [method |-> method, id |-> id, status |-> status, kind |-> "none",
     body |-> NoRecord, message |-> "", sent |-> FALSE, escaped |-> "none"]

\* An exception escaping a synchronous handler: Express's default error
\* handler answers 500.
Thrown(method, id) ==
    [method |-> method, id |-> id, status |-> 500, kind |-> "error",
     body |-> NoRecord, message |-> "ReferenceError", sent |-> TRUE,
     escaped |-> "exception"]

\* An exception escaping an async handler after it has responded: the
\* handler's promise rejects and nothing handles the rejection.
RespondedThenRejected(method, id, status, message) ==
    [method |-> method, id |-> id, status |-> status, kind |-> "error",
     body |-> NoRecord, message |-> message, sent |-> TRUE,
     escaped |-> "rejection"]

Init ==
    /\ variant \in Variants
    /\ hubs = <<>>
    /\ store = <<>>
    /\ nextId = 1
    /\ res = NoResponse("NONE", NoSuchId, 0)
    /\ inflight = <<>>
    /\ running = 0

(***************************************************************************)
(* The in-memory hubs server.                                              *)
(***************************************************************************)

\* GET /hubs
GetHubs ==
    /\ variant = "memory"
    /\ res' = Response("GETALL", NoSuchId, 200, "list", hubs)
    /\ UNCHANGED <<inflight, running, variant, hubs, store, nextId>>

\* A POST /hubs that takes its id from a token generated once, at start-up.
PostHubFixedId(hubInfo) ==
    /\ variant = "memory"
    /\ nextId <= MaxGen
    /\ LET stored == SetProperty(hubInfo, "id", -1)
       IN /\ hubs' = Append(hubs, stored)
          /\ res' = Response("POST", NoSuchId, 201, "record", stored)
    /\ nextId' = nextId + 1
    /\ UNCHANGED <<inflight, running, variant, store>>

\* POST /hubs, while fewer than cap tokens have been handed out.
PostHubWithin(hubInfo, cap) ==
    /\ variant = "memory"
    /\ nextId <= cap
    /\ LET stored == SetProperty(hubInfo, "id", ShortidGenerate)
       IN /\ hubs' = Append(hubs, stored)
          /\ res' = Response("POST", NoSuchId, 201, "record", stored)
    /\ nextId' = nextId + 1
    /\ UNCHANGED <<inflight, running, variant, store>>

\* POST /hubs
PostHub(hubInfo) == PostHubWithin(hubInfo, MaxGen)

\* DELETE /hubs/:id
DeleteHub(id) ==
    /\ variant = "memory"
    /\ LET found == FindIndex(hubs, id)
       IN IF found # 0
          THEN /\ hubs' = FilterOut(hubs, id)
               /\ res' = Response("DELETE", id, 200, "record", hubs[found])
          ELSE /\ hubs' = hubs
               /\ res' = ErrorResponse("DELETE", id, 404, "hub id not found")
    /\ UNCHANGED <<inflight, running, variant, store, nextId>>

\* PUT /hubs/:id
PutHub(id, changes) ==
    /\ variant = "memory"
    /\ LET index == FindIndex(hubs, id)
       IN IF index # 0
          THEN /\ hubs' = [hubs EXCEPT ![index] = changes]
               /\ res' = Response("PUT", id, 200, "record", changes)
          ELSE /\ hubs' = hubs
               /\ res' = ErrorResponse("PUT", id, 404, "hub id not found")
    /\ UNCHANGED <<inflight, running, variant, store, nextId>>

\* PATCH /hubs/:id
PatchHub(id, changes) ==
    /\ variant = "memory"
    /\ LET found == FindIndex(hubs, id)
       IN IF found # 0
          THEN /\ hubs' = [hubs EXCEPT ![found] = ObjectAssign(hubs[found], changes)]
               /\ res' = Response("PATCH", id, 200, "record",
                                  ObjectAssign(hubs[found], changes))
          ELSE /\ hubs' = hubs
               /\ res' = ErrorResponse("PATCH", id, 404, "hub id not found")
    /\ UNCHANGED <<inflight, running, variant, store, nextId>>

\* GET /hubs/:id.  The handler never declares `id`: the callback of
\* hubs.find reads an undeclared identifier and throws a ReferenceError as
\* soon as it is called, which is for the first element of a non-empty array.
GetHub(id) ==
    /\ variant = "memory"
    /\ IF hubs = <<>>
       THEN res' = ErrorResponse("GET", id, 404, "hub id not found")
       ELSE res' = Thrown("GET", id)
    /\ UNCHANGED <<inflight, running, variant, hubs, store, nextId>>

NextMemory ==
    \/ GetHubs
    \/ \E b \in Bodies : PostHub(b)
    \/ \E id \in PathIds : DeleteHub(id)
    \/ \E id \in PathIds, b \in Bodies : PutHub(id, b)
    \/ \E id \in PathIds, b \in PatchBodies : PatchHub(id, b)
    \/ \E id \in PathIds : GetHub(id)

(***************************************************************************)
(* The collection store behind the dogs and the database servers.  Neither *)
(* dog-model.js nor data/hubs-model.js is among the sources: the store is  *)
(* the one the specification describes (section 4.1).                      *)
(***************************************************************************)

\* findById: the index of the record with this id, 0 for the absent signal.
StoreIndex(s, id) ==
    IF \E i \in 1..Len(s) : Has(s[i], "id") /\ s[i]["id"] = id
    THEN CHOOSE i \in 1..Len(s) : Has(s[i], "id") /\ s[i]["id"] = id
    ELSE 0

\* create: assigns the fresh identifier when the caller provided none.
StoreCreate(data, fresh) ==
    IF Has(data, "id") THEN data
    ELSE [f \in DOMAIN data \cup {"id"} |-> IF f = "id" THEN fresh ELSE data[f]]

\* replace: the record becomes data, under the path-supplied id.
StoreReplace(id, data) ==
    [f \in DOMAIN data \cup {"id"} |-> IF f = "id" THEN id ELSE data[f]]

\* merge: patch fields overwrite, the others survive.
StoreMerge(old, patch) ==
    [f \in DOMAIN old \cup DOMAIN patch |->
        IF f \in DOMAIN patch THEN patch[f] ELSE old[f]]

\* delete: the collection without its i-th record.
StoreDelete(s, i) == SubSeq(s, 1, i - 1) \o SubSeq(s, i + 1, Len(s))

(***************************************************************************)
(* The dogs server.  Each handler awaits one store call, which may throw.  *)
(***************************************************************************)

\* A check of the name alone.
MissingName(dog) == ~Has(dog, "name") \/ dog["name"] = 0

\* !dog.name || !dog.weight
MissingNameOrWeight(dog) ==
    \/ ~Has(dog, "name") \/ dog["name"] = 0
    \/ ~Has(dog, "weight") \/ dog["weight"] = 0

\* POST /api/dogs
PostDog(dog, fail) ==
    /\ variant = "dogs"
    /\ IF MissingNameOrWeight(dog)
       THEN /\ res' = ErrorResponse("POST", NoSuchId, 400,
                                    "must include name and weight")
            /\ UNCHANGED <<store, nextId>>
       ELSE IF fail
       THEN /\ res' = ErrorResponse("POST", NoSuchId, 500, "store error")
            /\ UNCHANGED <<store, nextId>>
       ELSE /\ nextId <= MaxGen
            /\ store' = Append(store, StoreCreate(dog, -nextId))
            /\ nextId' = nextId + 1
            /\ res' = Response("POST", NoSuchId, 200, "record",
                               StoreCreate(dog, -nextId))
    /\ UNCHANGED <<inflight, running, variant, hubs>>

\* GET /api/dogs
GetDogs(fail) ==
    /\ variant = "dogs"
    /\ IF fail
       THEN res' = ErrorResponse("GETALL", NoSuchId, 500, "store error")
       ELSE res' = Response("GETALL", NoSuchId, 200, "list", store)
    /\ UNCHANGED <<inflight, running, variant, hubs, store, nextId>>

\* DELETE /api/dogs/:id.  The catch block ends with the statement `ß`, an
\* undeclared identifier: after the 500 is sent a ReferenceError leaves the
\* async handler.
DeleteDog(id, fail) ==
    /\ variant = "dogs"
    /\ LET i == StoreIndex(store, id)
       IN IF fail
          THEN /\ res' = RespondedThenRejected("DELETE", id, 500, "store error")
               /\ store' = store
          ELSE IF i # 0
          THEN /\ res' = Response("DELETE", id, 200, "record", store[i])
               /\ store' = StoreDelete(store, i)
          ELSE /\ res' = ErrorResponse("DELETE", id, 404, "unknown id")
               /\ store' = store
    /\ UNCHANGED <<inflight, running, variant, hubs, nextId>>

\* A PUT /api/dogs/:id that calls the store before it validates the body.
PutDogLookupFirst(id, changes, fail) ==
    /\ variant = "dogs"
    /\ LET i == StoreIndex(store, id)
       IN IF fail
          THEN /\ res' = ErrorResponse("PUT", id, 500, "store error")
               /\ store' = store
          ELSE IF i = 0
          THEN /\ res' = ErrorResponse("PUT", id, 404, "unknown id")
               /\ store' = store
          ELSE IF MissingNameOrWeight(changes)
          THEN /\ res' = ErrorResponse("PUT", id, 400,
                                       "must include name and weight")
               /\ store' = store
          ELSE /\ res' = Response("PUT", id, 200, "record",
                                  StoreReplace(id, changes))
               /\ store' = [store EXCEPT ![i] = StoreReplace(id, changes)]
    /\ UNCHANGED <<inflight, running, variant, hubs, nextId>>

\* PUT /api/dogs/:id
PutDog(id, changes, fail) ==
    /\ variant = "dogs"
    /\ LET i == StoreIndex(store, id)
       IN IF MissingNameOrWeight(changes)
          THEN /\ res' = ErrorResponse("PUT", id, 400,
                                       "must include name and weight")
               /\ store' = store
          ELSE IF fail
          THEN /\ res' = ErrorResponse("PUT", id, 500, "store error")
               /\ store' = store
          ELSE IF i # 0
          THEN /\ res' = Response("PUT", id, 200, "record",
                                  StoreReplace(id, changes))
               /\ store' = [store EXCEPT ![i] = StoreReplace(id, changes)]
          ELSE /\ res' = ErrorResponse("PUT", id, 404, "unknown id")
               /\ store' = store
    /\ UNCHANGED <<inflight, running, variant, hubs, nextId>>

\* A PATCH /api/dogs/:id that validates its body as POST and PUT do.
PatchDogValidated(id, changes, fail) ==
    /\ variant = "dogs"
    /\ LET i == StoreIndex(store, id)
       IN IF MissingNameOrWeight(changes)
          THEN /\ res' = ErrorResponse("PATCH", id, 400,
                                       "must include name and weight")
               /\ store' = store
          ELSE IF fail
          THEN /\ res' = ErrorResponse("PATCH", id, 500, "store error")
               /\ store' = store
          ELSE IF i # 0
          THEN /\ res' = Response("PATCH", id, 200, "record",
                                  StoreMerge(store[i], changes))
               /\ store' = [store EXCEPT ![i] = StoreMerge(store[i], changes)]
          ELSE /\ res' = ErrorResponse("PATCH", id, 404, "unknown id")
               /\ store' = store
    /\ UNCHANGED <<inflight, running, variant, hubs, nextId>>

\* PATCH /api/dogs/:id
PatchDog(id, changes, fail) ==
    /\ variant = "dogs"
    /\ LET i == StoreIndex(store, id)
       IN IF fail
          THEN /\ res' = ErrorResponse("PATCH", id, 500, "store error")
               /\ store' = store
          ELSE IF i # 0
          THEN /\ res' = Response("PATCH", id, 200, "record",
                                  StoreMerge(store[i], changes))
               /\ store' = [store EXCEPT ![i] = StoreMerge(store[i], changes)]
          ELSE /\ res' = ErrorResponse("PATCH", id, 404, "unknown id")
               /\ store' = store
    /\ UNCHANGED <<inflight, running, variant, hubs, nextId>>

NextDogs ==
    \/ \E b \in StoreBodies, fail \in BOOLEAN : PostDog(b, fail)
    \/ \E fail \in BOOLEAN : GetDogs(fail)
    \/ \E id \in PathIds, fail \in BOOLEAN : DeleteDog(id, fail)
    \/ \E id \in PathIds, b \in StoreBodies, fail \in BOOLEAN : PutDog(id, b, fail)
    \/ \E id \in PathIds, b \in StoreBodies, fail \in BOOLEAN : PatchDog(id, b, fail)

(***************************************************************************)
(* The database hubs server.  Each handler chains .then and .catch on the  *)
(* promise of one store call, which may reject.                            *)
(***************************************************************************)

\* GET / and GET /hey
GetHome ==
    /\ variant = "db"
    /\ res' = Response("HOME", NoSuchId, 200, "text", NoRecord)
    /\ UNCHANGED <<inflight, running, variant, hubs, store, nextId>>

\* GET /favicon.ico: res.status(204) sets the code and sends nothing.
GetFavicon ==
    /\ variant = "db"
    /\ res' = NoResponse("FAVICON", NoSuchId, 204)
    /\ UNCHANGED <<inflight, running, variant, hubs, store, nextId>>

\* GET /hubs
GetDbHubs(fail) ==
    /\ variant = "db"
    /\ IF fail
       THEN res' = ErrorResponse("GETALL", NoSuchId, 500, "store error")
       ELSE res' = Response("GETALL", NoSuchId, 200, "list", store)
    /\ UNCHANGED <<inflight, running, variant, hubs, store, nextId>>

\* POST /hubs
PostDbHub(hubInfo, fail) ==
    /\ variant = "db"
    /\ IF fail
       THEN /\ res' = ErrorResponse("POST", NoSuchId, 500, "store error")
            /\ UNCHANGED <<store, nextId>>
       ELSE /\ nextId <= MaxGen
            /\ store' = Append(store, StoreCreate(hubInfo, -nextId))
            /\ nextId' = nextId + 1
            /\ res' = Response("POST", NoSuchId, 201, "record",
                               StoreCreate(hubInfo, -nextId))
    /\ UNCHANGED <<inflight, running, variant, hubs>>

\* DELETE /hubs/:id.  The .then callback has no else branch, and the .catch
\* callback answers 404.
DeleteDbHub(id, fail) ==
    /\ variant = "db"
    /\ LET i == StoreIndex(store, id)
       IN IF fail
          THEN /\ res' = ErrorResponse("DELETE", id, 404, "id not found")
               /\ store' = store
          ELSE IF i # 0
          THEN /\ res' = Response("DELETE", id, 204, "empty", NoRecord)
               /\ store' = StoreDelete(store, i)
          ELSE /\ res' = NoResponse("DELETE", id, 0)
               /\ store' = store
    /\ UNCHANGED <<inflight, running, variant, hubs, nextId>>

\* PUT /hubs/:id
PutDbHub(id, changes, fail) ==
    /\ variant = "db"
    /\ LET i == StoreIndex(store, id)
       IN IF fail
          THEN /\ res' = ErrorResponse("PUT", id, 500, "store error")
               /\ store' = store
          ELSE IF i # 0
          THEN /\ res' = Response("PUT", id, 200, "record",
                                  StoreReplace(id, changes))
               /\ store' = [store EXCEPT ![i] = StoreReplace(id, changes)]
          ELSE /\ res' = ErrorResponse("PUT", id, 404, "id not found")
               /\ store' = store
    /\ UNCHANGED <<inflight, running, variant, hubs, nextId>>

\* GET /hubs/:id
GetDbHub(id, fail) ==
    /\ variant = "db"
    /\ LET i == StoreIndex(store, id)
       IN IF fail
          THEN res' = ErrorResponse("GET", id, 500, "store error")
          ELSE IF i # 0
          THEN res' = Response("GET", id, 200, "record", store[i])
          ELSE res' = ErrorResponse("GET", id, 404, "id not found")
    /\ UNCHANGED <<inflight, running, variant, hubs, store, nextId>>

NextDb ==
    \/ GetHome
    \/ GetFavicon
    \/ \E fail \in BOOLEAN : GetDbHubs(fail)
    \/ \E b \in StoreBodies, fail \in BOOLEAN : PostDbHub(b, fail)
    \/ \E id \in PathIds, fail \in BOOLEAN : DeleteDbHub(id, fail)
    \/ \E id \in PathIds, b \in StoreBodies, fail \in BOOLEAN : PutDbHub(id, b, fail)
    \/ \E id \in PathIds, fail \in BOOLEAN : GetDbHub(id, fail)

Next == NextMemory \/ NextDogs \/ NextDb

Spec == Init /\ [][Next]_vars

(***************************************************************************)
(* The in-memory server with a longer collection and bodies that carry at  *)
(* most an id: the requests that decide the order of the array.            *)
(***************************************************************************)

\* The most tokens the generator hands out in one behaviour of SpecWide.
MaxWide == 3

\* The bodies that carry at most an id.
IdBodies == {b \in Bodies : DOMAIN b \subseteq {"id"}}

InitWide == Init /\ variant = "memory"

NextWide ==
    \/ GetHubs
    \/ PostHubWithin(NoRecord, MaxWide)
    \/ \E id \in PathIds : DeleteHub(id)
    \/ \E id \in PathIds, b \in IdBodies : PutHub(id, b)
    \/ \E id \in PathIds, b \in IdBodies : PatchHub(id, b)
    \/ \E id \in PathIds : GetHub(id)

SpecWide == InitWide /\ [][NextWide]_vars

(***************************************************************************)
(* The in-memory server at the grain of the event loop.  A request waits   *)
(* in `inflight` until the loop calls its handler; the handler looks the   *)
(* id up, then mutates the array and responds.  Node runs one callback at  *)
(* a time: another handler starts only when the running one has returned   *)
(* or has suspended itself.                                                *)
(***************************************************************************)

\* The most requests in flight in one behaviour of SpecLoop.
MaxReqs == 3

\* The bodies of the requests in flight: empty, or a name.
LoopBodies == UNION {[D -> ClientVals] : D \in SUBSET {"name"}}

\* A handler that hands the thread back between its lookup and its mutation.
SuspendsAfterLookup == TRUE

\* Whether a handler of the in-memory server hands the thread back between
\* its lookup and its mutation: none awaits, none schedules a callback.
SuspendsMidHandler == FALSE

\* arr[i] = v, on an array that may be shorter than i.
ArraySet(arr, i, v) ==
    [k \in 1..(IF i > Len(arr) THEN i ELSE Len(arr)) |->
        IF k = i THEN v ELSE IF k <= Len(arr) THEN arr[k] ELSE NoRecord]

\* The first half of a handler: findIndex / find on the array h.  POST looks
\* nothing up.
Lookup(h, r) ==
    LET index == IF r.method = "POST" THEN 0 ELSE FindIndex(h, r.id)
    IN [r EXCEPT !.pc = "looked", !.index = index,
                 !.found = IF index = 0 THEN NoRecord ELSE h[index]]

\* The second half of a handler, for a request r that has looked up: the
\* array, the token counter and the response it leaves, from the array h and
\* the counter n.  PATCH assigns to the object it found, which is the
\* element at r.index as long as the array has it.
Mutation(h, n, r) ==
    CASE r.method = "POST" ->
           LET stored == SetProperty(r.body, "id", -n)
           IN [hubs |-> Append(h, stored), nextId |-> n + 1,
               out |-> Response("POST", NoSuchId, 201, "record", stored)]
      [] r.index = 0 ->
           [hubs |-> h, nextId |-> n,
            out |-> ErrorResponse(r.method, r.id, 404, "hub id not found")]
      [] r.method = "DELETE" ->
           [hubs |-> FilterOut(h, r.id), nextId |-> n,
            out |-> Response("DELETE", r.id, 200, "record", r.found)]
      [] r.method = "PUT" ->
           [hubs |-> ArraySet(h, r.index, r.body), nextId |-> n,
            out |-> Response("PUT", r.id, 200, "record", r.body)]
      [] r.method = "PATCH" ->
           LET hub == IF r.index <= Len(h) THEN h[r.index] ELSE r.found
               merged == ObjectAssign(hub, r.body)
           IN [hubs |-> IF r.index <= Len(h)
                        THEN [h EXCEPT ![r.index] = merged] ELSE h,
               nextId |-> n,
               out |-> Response("PATCH", r.id, 200, "record", merged)]

\* A request reaches the server.
Arrive(method, id, body) ==
    /\ variant = "memory"
    /\ Len(inflight) < MaxReqs
    /\ inflight' = Append(inflight,
                          [method |-> method, id |-> id, body |-> body,
                           pc |-> "pending", index |-> 0, found |-> NoRecord,
                           out |-> NoResponse(method, id, 0)])
    /\ UNCHANGED <<variant, hubs, store, nextId, res, running>>

\* The loop calls the handler of request k, which runs up to its lookup.
Begin(k) ==
    /\ variant = "memory"
    /\ running = 0
    /\ k \in 1..Len(inflight)
    /\ inflight[k].pc = "pending"
    /\ inflight' = [inflight EXCEPT ![k] = Lookup(hubs, inflight[k])]
    /\ running' = IF SuspendsMidHandler THEN 0 ELSE k
    /\ UNCHANGED <<variant, hubs, store, nextId, res>>

\* The handler of request k mutates the array, responds and returns.
Finish(k) ==
    /\ variant = "memory"
    /\ k \in 1..Len(inflight)
    /\ inflight[k].pc = "looked"
    /\ running \in {0, k}
    /\ LET m == Mutation(hubs, nextId, inflight[k])
       IN /\ hubs' = m.hubs
          /\ nextId' = m.nextId
          /\ res' = m.out
          /\ inflight' = [inflight EXCEPT ![k].pc = "done", ![k].out = m.out]
    /\ running' = 0
    /\ UNCHANGED <<variant, store>>

InitLoop == Init /\ variant = "memory"

NextLoop ==
    \/ \E b \in LoopBodies : Arrive("POST", NoSuchId, b)
    \/ \E id \in PathIds : Arrive("DELETE", id, NoRecord)
    \/ \E id \in PathIds, b \in LoopBodies : Arrive("PUT", id, b)
    \/ \E id \in PathIds, b \in LoopBodies : Arrive("PATCH", id, b)
    \/ \E k \in 1..Len(inflight) : Begin(k)
    \/ \E k \in 1..Len(inflight) : Finish(k)

SpecLoop == InitLoop /\ [][NextLoop]_vars

(***************************************************************************)
(* Properties.                                                             *)
(***************************************************************************)

\* The collection of the running server.
Collection == IF variant = "memory" THEN hubs ELSE store

\* No record of the collection carries this id.
Absent(id) == \A i \in 1..Len(Collection) : ~IdMatches(Collection[i], id)

\* The body lacks name or weight, or carries a falsy value for either.
LacksNameOrWeight(b) ==
    \E f \in {"name", "weight"} : f \notin DOMAIN b \/ b[f] = 0

\* The record data under the identifier id.
WithId(data, id) ==
    [f \in DOMAIN data \cup {"id"} |-> IF f = "id" THEN id ELSE data[f]]

\* A step is a request for an id handled with no store failure and, in the
\* dogs server, with a valid body.
ByIdRequest(id) ==
    \/ GetHub(id) \/ DeleteHub(id)
    \/ \E b \in Bodies : PutHub(id, b)
    \/ \E b \in PatchBodies : PatchHub(id, b)
    \/ DeleteDog(id, FALSE) \/ DeleteDbHub(id, FALSE) \/ GetDbHub(id, FALSE)
    \/ \E b \in StoreBodies :
          \/ PatchDog(id, b, FALSE) \/ PutDbHub(id, b, FALSE)
          \/ ~LacksNameOrWeight(b) /\ PutDog(id, b, FALSE)

\* A step is a request whose store call throws or rejects.
FailedStoreCall(id) ==
    \/ GetDogs(TRUE) \/ GetDbHubs(TRUE)
    \/ DeleteDog(id, TRUE) \/ DeleteDbHub(id, TRUE) \/ GetDbHub(id, TRUE)
    \/ \E b \in StoreBodies :
          \/ PatchDog(id, b, TRUE) \/ PostDbHub(b, TRUE) \/ PutDbHub(id, b, TRUE)
          \/ ~LacksNameOrWeight(b) /\ (PostDog(b, TRUE) \/ PutDog(id, b, TRUE))

\* C1: no two records of the collection have the same id.
C1_UniqueIds ==
    \A i, j \in 1..Len(Collection) :
        (i # j /\ Has(Collection[i], "id") /\ Has(Collection[j], "id"))
            => Collection[i]["id"] # Collection[j]["id"]

\* C2: after a PUT of newData to an id answered 200, the collection holds,
\* under that id, exactly newData with the path id, and nothing else of the
\* old record.
C2_ReplaceThenFind ==
    (res.method = "PUT" /\ res.status = 200)
        => \E i \in 1..Len(Collection) :
               /\ IdMatches(Collection[i], res.id)
               /\ Collection[i] = WithId(res.body, res.id)

\* C3: a GET by the id of the record a POST has just returned answers 200
\* with that record.
C3_RoundTrip ==
    [][(res.method = "POST" /\ res.kind = "record" /\ res'.method = "GET"
          /\ res'.id = res.body["id"]
          /\ (GetHub(res'.id) \/ GetDbHub(res'.id, FALSE)))
        => (res'.status = 200 /\ res'.body = res.body)]_vars

\* C4: a GET by the id that a DELETE has just answered 200 for answers 404.
C4_DeleteThenGet ==
    [][(res.method = "DELETE" /\ res.status = 200 /\ res'.method = "GET"
          /\ res'.id = res.id /\ GetHub(res'.id))
        => res'.status = 404]_vars

\* C5 (as claimed): in every variant a POST or PUT whose body lacks name or
\* weight, or carries a falsy value for either, is answered 400 and leaves
\* the collection unchanged.
C5_ValidationInEveryVariant ==
    [][(res'.method \in {"POST", "PUT"})
        => /\ \A b \in Bodies :
                 (LacksNameOrWeight(b) /\ (PostHub(b) \/ PutHub(res'.id, b)))
                     => (res'.status = 400 /\ hubs' = hubs)
           /\ \A b \in StoreBodies, fail \in BOOLEAN :
                 (LacksNameOrWeight(b)
                    /\ (\/ PostDog(b, fail) \/ PutDog(res'.id, b, fail)
                        \/ PostDbHub(b, fail) \/ PutDbHub(res'.id, b, fail)))
                     => (res'.status = 400 /\ store' = store)]_vars

\* C5 (amended): in the dogs variant a POST or PUT whose body lacks name or
\* weight, or carries a falsy value for either, is answered 400 with the
\* message "must include name and weight" and leaves the collection
\* unchanged, whether or not the store would fail and the id exists.
C5_DogsValidation ==
    [][(variant = "dogs" /\ res'.method \in {"POST", "PUT"})
        => \A b \in StoreBodies, fail \in BOOLEAN :
               (LacksNameOrWeight(b)
                  /\ (PostDog(b, fail) \/ PutDog(res'.id, b, fail)))
                   => /\ res'.status = 400
                      /\ res'.message = "must include name and weight"
                      /\ res'.sent
                      /\ store' = store /\ nextId' = nextId]_vars

\* C5's case: the dogs server has refused a PUT to the id of a record it
\* holds.
C5_Witness ==
    /\ variant = "dogs"
    /\ res.method = "PUT" /\ res.status = 400
    /\ \E i \in 1..Len(store) : IdMatches(store[i], res.id)

\* C6: a PUT, PATCH, DELETE or GET for an id that is not in the collection
\* is answered 404, and no exception leaves the handler.
C6_NotFoundIs404 ==
    [][(res'.method \in {"PUT", "PATCH", "DELETE", "GET"}
          /\ Absent(res'.id) /\ ByIdRequest(res'.id))
        => (res'.sent /\ res'.status = 404 /\ res'.escaped = "none")]_vars

C8_FreshIdOnCreate ==
    [][(variant = "memory" /\ res'.method = "POST")
        => \A b \in UNION {[D -> ClientVals] : D \in SUBSET (Fields \ {"id"})} :
               PostHub(b)
                   => LET r == res'.body
                      IN /\ res'.status = 201
                         /\ Has(r, "id")
                         /\ \A i \in 1..Len(hubs) : ~IdMatches(hubs[i], r["id"])
                         /\ r = WithId(b, r["id"])
                         /\ Len(hubs') = Len(hubs) + 1
                         /\ hubs'[Len(hubs')] = r
                         /\ \A i \in 1..Len(hubs) : hubs'[i] = hubs[i]]_vars

\* C8's case: a POST has stored a second record while the first one is
\* still there.
C8_Witness ==
    /\ variant = "memory"
    /\ res.method = "POST" /\ res.status = 201
    /\ Len(hubs) = 2
    /\ hubs[2] = res.body

\* C9: every request a handler has finished with has received a response.
C9_EveryRequestAnswered == res.method # "NONE" => res.sent

\* C10: a request whose store call throws or rejects is answered 500, and a
\* request for an id that is not in the collection is never answered 500.
C10_StoreErrorIs500 ==
    [][/\ FailedStoreCall(res'.id) => res'.status = 500
       /\ (Absent(res'.id) /\ ByIdRequest(res'.id)) => res'.status # 500]_vars

\* C11: a request answered with a failure (400, 404 or 500) leaves no error
\* escaping its handler and leaves the collection as it was.
C11_FailureIsolated ==
    [][(res'.status >= 400)
        => (res'.escaped = "none" /\ hubs' = hubs /\ store' = store)]_vars

\* The elements of s at the positions K, in the order of s.
KeepPositions(s, K) ==
    LET F[i \in 0..Len(s)] ==
            IF i = 0 THEN <<>>
            ELSE IF i \in K THEN Append(F[i - 1], s[i]) ELSE F[i - 1]
    IN F[Len(s)]

\* C12: in the in-memory server find-all answers 200 with the array as it
\* is (the empty sequence for an empty array) and changes nothing, twice in
\* a row with the same answer; a create appends, a replace or merge changes
\* one element in place, and a delete leaves the surviving elements in
\* their order.
C12_FindAllInOrder ==
    [][(variant = "memory")
        => /\ (res'.method = "GETALL")
                => /\ res'.sent /\ res'.status = 200 /\ res'.escaped = "none"
                   /\ res'.body = hubs /\ hubs' = hubs
                   /\ (res.method = "GETALL" => res'.body = res.body)
           /\ (res'.method = "POST") => hubs' = Append(hubs, res'.body)
           /\ (res'.method \in {"PUT", "PATCH"})
                => /\ Len(hubs') = Len(hubs)
                   /\ \A i \in 1..Len(hubs) :
                          hubs'[i] = hubs[i] \/ hubs'[i] = res'.body
           /\ (res'.method = "DELETE")
                => \E K \in SUBSET (1..Len(hubs)) :
                       hubs' = KeepPositions(hubs, K)]_vars

\* C12's case: find-all has answered with the two records that are left of
\* three created, after a delete.
C12_Witness ==
    /\ variant = "memory"
    /\ res.method = "GETALL" /\ res.status = 200
    /\ nextId = MaxWide + 1
    /\ Len(hubs) = 2 /\ hubs[1] # hubs[2]
    /\ res.body = hubs

\* The bijections of 1..n: the orders in which n requests can run.
Orders(n) == {p \in [1..n -> 1..n] : \A i, j \in 1..n : p[i] = p[j] => i = j}

\* The array and the responses left by running the requests reqs one after
\* the other in the order p, each handler whole, from the array h and the
\* token counter t.
RECURSIVE RunInOrder(_, _, _, _, _)
RunInOrder(reqs, p, i, h, t) ==
    IF i > Len(reqs) THEN [hubs |-> h, outs |-> [k \in {} |-> NoRecord]]
    ELSE LET m == Mutation(h, t, Lookup(h, reqs[p[i]]))
             rest == RunInOrder(reqs, p, i + 1, m.hubs, m.nextId)
         IN [hubs |-> rest.hubs,
             outs |-> [k \in DOMAIN rest.outs \cup {p[i]} |->
                          IF k = p[i] THEN m.out ELSE rest.outs[k]]]

AllDone == running = 0 /\ \A k \in 1..Len(inflight) : inflight[k].pc = "done"

\* C13: in the in-memory server, once the requests in flight (POST, PUT,
\* PATCH, DELETE, called by the loop in any order) have all been handled,
\* the array and every response are those of running the same requests one
\* whole handler after the other, in some order.
C13_Serializable ==
    (variant = "memory" /\ AllDone)
        => \E p \in Orders(Len(inflight)) :
               LET seq == RunInOrder(inflight, p, 1, <<>>, 1)
               IN /\ seq.hubs = hubs
                  /\ \A k \in 1..Len(inflight) : seq.outs[k] = inflight[k].out

\* C13's case: a DELETE and a PATCH of the same record waited together, the
\* loop called the PATCH (which arrived last) first, and both were answered
\* 200.
C13_Witness ==
    /\ variant = "memory" /\ AllDone /\ Len(inflight) = 3
    /\ inflight[1].method = "POST"
    /\ inflight[2].method = "DELETE" /\ inflight[2].out.status = 200
    /\ inflight[3].method = "PATCH" /\ inflight[3].out.status = 200
    /\ inflight[3].body # NoRecord
    /\ inflight[2].out.body = inflight[3].out.body

\* C14: a PATCH is never answered 400, and a PATCH to an id of the
\* collection whose store call does not fail is answered 200 whatever the
\* body holds, a body without name or weight included.
C14_MergeNotValidated ==
    [][(res'.method = "PATCH")
        => /\ res'.status # 400
           /\ (variant = "memory" /\ ~Absent(res'.id)) => res'.status = 200
           /\ (variant = "dogs" /\ ~Absent(res'.id))
                => \A b \in StoreBodies :
                       PatchDog(res'.id, b, FALSE) => res'.status = 200]_vars

\* C14's case: the dogs server has answered a PATCH 200 with a record whose
\* name or weight is falsy, which only the patch can have put there.
C14_Witness ==
    /\ variant = "dogs"
    /\ res.method = "PATCH" /\ res.status = 200
    /\ LacksNameOrWeight(res.body)
    /\ \E i \in 1..Len(store) : store[i] = res.body

\* C15: in the in-memory server a DELETE answered 200 returns a record that
\* carried the id, removes that one record and leaves every other record
\* as and where it was.
C15_DeleteRemovesOne ==
    [][(variant = "memory" /\ res'.method = "DELETE" /\ res'.status = 200)
        => \E i \in 1..Len(hubs) :
               /\ IdMatches(hubs[i], res'.id)
               /\ res'.body = hubs[i]
               /\ hubs' = SubSeq(hubs, 1, i - 1) \o SubSeq(hubs, i + 1, Len(hubs))]_vars

\* C16: in the in-memory server a PATCH answered 200 leaves the stored
\* element with the keys it had: a property of the body that the element
\* has takes the body's value, a property of the body that the element has
\* not is ignored, and the other properties of the element keep their
\* values.
C16_PatchOnlyExistingKeys ==
    [][(variant = "memory" /\ res'.method = "PATCH" /\ res'.status = 200)
        => \A b \in PatchBodies :
               PatchHub(res'.id, b)
                   => LET i == FindIndex(hubs, res'.id)
                      IN /\ DOMAIN hubs'[i] = DOMAIN hubs[i]
                         /\ \A f \in DOMAIN hubs[i] :
                                hubs'[i][f] = IF f \in DOMAIN b THEN b[f]
                                              ELSE hubs[i][f]]_vars

\* C17: in the dogs server a PUT whose body lacks name or weight is
\* answered 400 and leaves the store alone whether or not the store call
\* would fail and whether or not the id exists; 400 is answered for no
\* other body, and 404 only for a valid body, an unknown id and a store
\* call that does not fail.
C17_ValidationBeforeLookup ==
    [][(variant = "dogs" /\ res'.method = "PUT")
        => \A b \in StoreBodies, fail \in BOOLEAN :
               PutDog(res'.id, b, fail)
                   => /\ LacksNameOrWeight(b)
                          => (res'.status = 400 /\ store' = store)
                      /\ res'.status = 400 => LacksNameOrWeight(b)
                      /\ res'.status = 404
                          => (~LacksNameOrWeight(b) /\ Absent(res'.id) /\ ~fail)
                      /\ (~LacksNameOrWeight(b) /\ Absent(res'.id) /\ ~fail)
                          => res'.status = 404]_vars

\* C17's case: the dogs server has refused, with 400, a PUT to an id that
\* no record of its non-empty store carries.
C17_Witness ==
    /\ variant = "dogs"
    /\ res.method = "PUT" /\ res.status = 400
    /\ store # <<>>
    /\ Absent(res.id)

====
